---- MODULE Spec2Model ----
(***************************************************************************)
(* A model of job_matcher.py: the JobMatcher class (text normalisation,    *)
(* keyword extraction, TF-IDF/cosine scoring, skill set comparison) and    *)
(* its orchestrator match().                                               *)
(*                                                                         *)
(* Text is modelled as a sequence of characters, each character a string   *)
(* of length one ("U+2022" stands for the bullet, the one non-ASCII        *)
(* character used, and "U+0060" for the grave accent).  Python floats are  *)
(* modelled as binary floating-point numbers with a PREC-bit significand,  *)
(* rounded to nearest-even after every operation, as IEEE-754 binary64     *)
(* does with 53 bits.                                                      *)
(***************************************************************************)
EXTENDS Integers, Sequences, FiniteSets, TLC

VARIABLES
    stop_words,   \* JobMatcher.stop_words, built by __init__
    files,        \* the file system: path -> what open()/read() does there
    args,         \* the arguments of the call in progress / last call
    ret,          \* what the last call returned (or raised)
    calls         \* number of calls made so far on this matcher

vars == <<stop_words, files, args, ret, calls>>

NotCalled == [kind |-> "not called"]

(***************************************************************************)
(* Bounds of the model.                                                    *)
(***************************************************************************)
MaxChars == 4        \* longest character-level text given to preprocess_text
MaxTokens == 4       \* longest token sequence given to extract_keywords
MaxLimit == 4        \* largest num_keywords tried (the smallest is -MaxLimit)
MaxListLen == 3      \* longest keyword list given to the comparators
MaxDocWords == 2     \* longest enumerated document, in words
MaxCalls == 2        \* calls of match per behaviour
PREC == 13           \* bits of the modelled floating-point significand

(***************************************************************************)
(* Characters and strings.                                                 *)
(***************************************************************************)
UpperCase == <<"A","B","C","D","E","F","G","H","I","J","K","L","M",
               "N","O","P","Q","R","S","T","U","V","W","X","Y","Z">>
LowerCase == <<"a","b","c","d","e","f","g","h","i","j","k","l","m",
               "n","o","p","q","r","s","t","u","v","w","x","y","z">>
Digits == <<"0","1","2","3","4","5","6","7","8","9">>

\* string.punctuation
punctuation == {"!","\"","#","$","%","&","'","(",")","*","+",",","-",".","/",
                ":",";","<","=",">","?","@","[","\\","]","^","_","U+0060","{","|",
                "}","~"}

\* what str.split() splits on
whitespace == {" ", "\t", "\n"}

Range(s) == {s[i] : i \in DOMAIN s}

\* the sequence [i \in 1..n |-> ...] as a tuple of its values
Tuple(s) == s \o <<>>

\* the element of a set of one element; The({F(v) : v \in {e}}) is F(e) with
\* e evaluated once, before F uses it
The(S) == CHOOSE x \in S : TRUE

\* str.lower() on one character
LowerChar(c) ==
    IF \E i \in DOMAIN UpperCase : UpperCase[i] = c
    THEN LowerCase[CHOOSE i \in DOMAIN UpperCase : UpperCase[i] = c]
    ELSE c

\* text.lower()
lower(text) == Tuple([i \in DOMAIN text |-> LowerChar(text[i])])

\* text.translate(str.maketrans('', '', string.punctuation))
IsNotPunctuation(c) == c \notin punctuation
remove_punctuation(text) == SelectSeq(text, IsNotPunctuation)

\* the maximal runs of characters of text that are not in seps, in order
Runs(text, seps) ==
    LET inside(i) == text[i] \notin seps
        starts == {i \in DOMAIN text : inside(i) /\ (i = 1 \/ ~inside(i - 1))}
        ends == {i \in DOMAIN text : inside(i) /\ (i = Len(text) \/ ~inside(i + 1))}
        nth(S, k) == CHOOSE i \in S : Cardinality({j \in S : j <= i}) = k
    IN  Tuple([k \in 1..Cardinality(starts) |->
                  SubSeq(text, nth(starts, k), nth(ends, k))])

\* text.split(): the maximal runs of non-whitespace characters
split(text) == Runs(text, whitespace)

\* ' '.join(words)
RECURSIVE join(_)
join(words) ==
    IF words = <<>> THEN <<>>
    ELSE IF Len(words) = 1 THEN words[1]
    ELSE words[1] \o <<" ">> \o join(Tail(words))

(***************************************************************************)
(* Stopwords.  stopwords.words('english') is a corpus outside the          *)
(* repository; NltkEnglish holds the words of it that the model's texts    *)
(* can spell.  The six domain words are the ones __init__ adds.            *)
(***************************************************************************)
NltkEnglish == { <<"t","h","e">>, <<"a","n","d">>, <<"f","o","r">>,
                 <<"w","i","t","h">>, <<"a">>, <<"i","n">> }

DomainWords == { <<"j","o","b">>, <<"r","o","l","e">>,
                 <<"p","o","s","i","t","i","o","n">>,
                 <<"c","o","m","p","a","n","y">>,
                 <<"t","e","a","m">>, <<"w","o","r","k">> }

\* JobMatcher.__init__
InitStopWords == NltkEnglish \cup DomainWords

(***************************************************************************)
(* JobMatcher.preprocess_text                                              *)
(***************************************************************************)
\* the bug of filtering the tokens before the punctuation is removed
preprocess_text_filter_first(text) ==
    LET words == split(lower(text))
        kept == SelectSeq(words, LAMBDA word : word \notin stop_words /\ Len(word) > 2)
    IN  join(split(remove_punctuation(join(kept))))

preprocess_text(text) ==
    LET lowered == lower(text)
        stripped == remove_punctuation(lowered)
        words == split(stripped)
        kept == SelectSeq(words, LAMBDA word : word \notin stop_words /\ Len(word) > 2)
    IN  join(kept)

(***************************************************************************)
(* Texts of bounded length over an alphabet.                               *)
(***************************************************************************)
RECURSIVE TextsUpTo(_, _)
TextsUpTo(alphabet, n) ==
    IF n = 0 THEN {<<>>}
    ELSE LET shorter == TextsUpTo(alphabet, n - 1)
         IN  shorter \cup {Append(t, c) : t \in shorter, c \in alphabet}

\* enough to spell a stopword, a short token, upper case and punctuation
NormAlphabet == {"t", "h", "e", "T", ".", " "}

\* texts with a domain word, a tab and a newline, the non-ASCII bullet
NormFixtures == {
    <<"J","o","b","\t","o","f","\n","j","o","b","s">>,
    <<"t","e","a","m","-","w","o","r","k"," ","W","o","r","k","!">>,
    <<"U+2022"," ","C","+","+"," ","s","q","l","U+2022">> }

NormInputs == TextsUpTo(NormAlphabet, MaxChars) \cup NormFixtures

(***************************************************************************)
(* Specification of preprocess_text: one call on any text, then calls on   *)
(* the result of the call before.                                          *)
(***************************************************************************)
InitPreprocess ==
    /\ stop_words = InitStopWords
    /\ files = <<>>
    /\ args \in {<<t>> : t \in NormInputs}
    /\ ret = NotCalled
    /\ calls = 0

CallPreprocess ==
    /\ calls = 0
    /\ ret' = preprocess_text(args[1])
    /\ calls' = 1
    /\ UNCHANGED <<stop_words, files, args>>

CallPreprocessAgain ==
    /\ calls = 1
    /\ args' = <<ret>>
    /\ ret' = preprocess_text(ret)
    /\ calls' = 2
    /\ UNCHANGED <<stop_words, files>>

NextPreprocess == CallPreprocess \/ CallPreprocessAgain

SpecPreprocess == InitPreprocess /\ [][NextPreprocess]_vars

(***************************************************************************)
(* JobMatcher.extract_keywords                                             *)
(***************************************************************************)
DEFAULT_NUM_KEYWORDS == 20

\* the keys of word_freq, in insertion order: each word once, by first occurrence
RECURSIVE DictKeys(_, _)
DictKeys(words, keys) ==
    IF words = <<>> THEN keys
    ELSE DictKeys(Tail(words),
                  IF Head(words) \in Range(keys) THEN keys ELSE Append(keys, Head(words)))

\* word_freq[word]
Count(words, word) == Cardinality({i \in DOMAIN words : words[i] = word})

\* word_freq.items()
DictItems(words) ==
    LET keys == DictKeys(words, <<>>)
    IN  Tuple([i \in DOMAIN keys |-> <<keys[i], Count(words, keys[i])>>])

\* the bug of getting the descending order by reversing an ascending sort,
\* which reverses the ties as well
InsertDescendingTiesReversed(sorted, item) ==
    LET before == SelectSeq(sorted, LAMBDA x : x[2] > item[2])
        after == SelectSeq(sorted, LAMBDA x : x[2] <= item[2])
    IN  before \o <<item>> \o after

\* one step of a stable descending sort: item goes behind every item whose
\* frequency is at least its own
InsertDescending(sorted, item) ==
    LET before == SelectSeq(sorted, LAMBDA x : x[2] >= item[2])
        after == SelectSeq(sorted, LAMBDA x : x[2] < item[2])
    IN  before \o <<item>> \o after

\* sorted(items, key=lambda x: x[1], reverse=True): stable, also with reverse
RECURSIVE SortedByFreq(_, _)
SortedByFreq(items, sorted) ==
    IF items = <<>> THEN sorted
    ELSE SortedByFreq(Tail(items), InsertDescending(sorted, Head(items)))

\* the bug of not truncating at all
SliceWhole(s, n) == s

\* s[:n] of Python: a negative n counts from the end
Slice(s, n) ==
    IF n >= 0
    THEN SubSeq(s, 1, IF n < Len(s) THEN n ELSE Len(s))
    ELSE SubSeq(s, 1, IF Len(s) + n > 0 THEN Len(s) + n ELSE 0)

extract_keywords(text, num_keywords) ==
    LET words == split(text)
        sorted_keywords == SortedByFreq(DictItems(words), <<>>)
        top == Slice(sorted_keywords, num_keywords)
    IN  Tuple([i \in DOMAIN top |-> top[i][1]])

(***************************************************************************)
(* Specification of extract_keywords: one call on a normalised text, with  *)
(* any limit or with the default one.                                      *)
(***************************************************************************)
sql == <<"s","q","l">>
aws == <<"a","w","s">>
get == <<"g","e","t">>

KwTokens == {sql, aws, get}

RECURSIVE SeqsUpTo(_, _)
SeqsUpTo(S, n) ==
    IF n = 0 THEN {<<>>}
    ELSE LET shorter == SeqsUpTo(S, n - 1)
         IN  shorter \cup {Append(t, x) : t \in shorter, x \in S}

KwTexts == {join(ws) : ws \in SeqsUpTo(KwTokens, MaxTokens)}

InitKeywords ==
    /\ stop_words = InitStopWords
    /\ files = <<>>
    /\ args \in {<<preprocess_text(t), n>> : t \in KwTexts, n \in (-MaxLimit)..MaxLimit}
    /\ ret = NotCalled
    /\ calls = 0

CallExtractKeywords ==
    /\ calls = 0
    /\ ret' = extract_keywords(args[1], args[2])
    /\ calls' = 1
    /\ UNCHANGED <<stop_words, files, args>>

CallExtractKeywordsDefault ==
    /\ calls = 0
    /\ args' = <<args[1], DEFAULT_NUM_KEYWORDS>>
    /\ ret' = extract_keywords(args[1], DEFAULT_NUM_KEYWORDS)
    /\ calls' = 1
    /\ UNCHANGED <<stop_words, files>>

NextKeywords == CallExtractKeywords \/ CallExtractKeywordsDefault

SpecKeywords == InitKeywords /\ [][NextKeywords]_vars

(***************************************************************************)
(* JobMatcher.find_matched_skills, JobMatcher.find_missing_skills.  Each   *)
(* returns list(<set>): the entries of a set, once each, in the set's      *)
(* iteration order, which Python leaves unspecified.  The value is         *)
(* modelled by the set of its entries.                                     *)
(***************************************************************************)
\* the bug of taking the difference the wrong way round
find_missing_skills_swapped(resume_keywords, job_keywords) ==
    LET resume_set == Range(resume_keywords)
        job_set == Range(job_keywords)
    IN  resume_set \ job_set

find_matched_skills(resume_keywords, job_keywords) ==
    LET resume_set == Range(resume_keywords)
        job_set == Range(job_keywords)
    IN  resume_set \cap job_set

find_missing_skills(resume_keywords, job_keywords) ==
    LET resume_set == Range(resume_keywords)
        job_set == Range(job_keywords)
    IN  job_set \ resume_set

(***************************************************************************)
(* Specification of the two comparators: one call of each on any pair of   *)
(* keyword lists, duplicates and empty lists included.                     *)
(***************************************************************************)
KeywordLists == SeqsUpTo(KwTokens, MaxListLen)

InitSkills ==
    /\ stop_words = InitStopWords
    /\ files = <<>>
    /\ args \in KeywordLists \X KeywordLists
    /\ ret = NotCalled
    /\ calls = 0

CallFindMatched ==
    /\ calls = 0
    /\ ret' = [matched |-> find_matched_skills(args[1], args[2])]
    /\ calls' = 1
    /\ UNCHANGED <<stop_words, files, args>>

CallFindMissing ==
    /\ calls = 0
    /\ ret' = [missing |-> find_missing_skills(args[1], args[2])]
    /\ calls' = 1
    /\ UNCHANGED <<stop_words, files, args>>

NextSkills == CallFindMatched \/ CallFindMissing

SpecSkills == InitSkills /\ [][NextSkills]_vars

(***************************************************************************)
(* Floating-point numbers: [m, e] stands for m * 2^e, with m = 0 or        *)
(* 2^(PREC-1) <= m < 2^PREC.  Every operation rounds its exact result to   *)
(* the nearest such number, ties to the even significand.  Only values     *)
(* >= 0 occur.  The integers behind an operation have at most             *)
(* 2 * PREC + 2 bits.                                                      *)
(***************************************************************************)
RECURSIVE BitLen(_)
BitLen(n) == IF n = 0 THEN 0 ELSE 1 + BitLen(n \div 2)

Zero == [m |-> 0, e |-> 0]

\* the float nearest to n * 2^e
Round(n, e) ==
    IF n = 0 THEN Zero
    ELSE LET bl == BitLen(n)
         IN  IF bl <= PREC
             THEN [m |-> n * 2^(PREC - bl), e |-> e - (PREC - bl)]
             ELSE LET k == bl - PREC
                      q == n \div 2^k
                      r == n % 2^k
                      half == 2^(k - 1)
                      up == r > half \/ (r = half /\ q % 2 = 1)
                      q2 == IF up THEN q + 1 ELSE q
                  IN  IF q2 = 2^PREC
                      THEN [m |-> 2^(PREC - 1), e |-> e + k + 1]
                      ELSE [m |-> q2, e |-> e + k]

Float(n) == Round(n, 0)
One == Float(1)

FMul(a, b) == Round(a.m * b.m, a.e + b.e)

FAdd(a, b) ==
    IF a.m = 0 THEN b
    ELSE IF b.m = 0 THEN a
    ELSE LET hi == IF a.e >= b.e THEN a ELSE b
             lo == IF a.e >= b.e THEN b ELSE a
             d == hi.e - lo.e
         IN  IF d > PREC + 1 THEN hi
             ELSE Round(hi.m * 2^d + lo.m, lo.e)

\* a / b for b # 0: PREC+2 quotient bits and a sticky bit decide the rounding
FDiv(a, b) ==
    IF a.m = 0 THEN Zero
    ELSE LET n == a.m * 2^(PREC + 2)
             q == n \div b.m
             r == n % b.m
         IN  Round(2 * q + (IF r = 0 THEN 0 ELSE 1), a.e - b.e - (PREC + 2) - 1)

\* the integer square root, one bit at a time
RECURSIVE ISqrtFrom(_, _, _)
ISqrtFrom(n, bit, acc) ==
    IF bit = 0 THEN acc
    ELSE ISqrtFrom(n, bit \div 2,
                   IF (acc + bit) * (acc + bit) <= n THEN acc + bit ELSE acc)

\* for n < 2^(2 * PREC + 2), as FSqrt has it
ISqrt(n) == ISqrtFrom(n, 2^PREC, 0)

FSqrt(a) ==
    IF a.m = 0 THEN Zero
    ELSE LET k == IF (a.e - (PREC + 1)) % 2 = 0 THEN PREC + 1 ELSE PREC + 2
             n == a.m * 2^k
             s == ISqrt(n)
         IN  Round(2 * s + (IF s * s = n THEN 0 ELSE 1), ((a.e - k) \div 2) - 1)

\* a <= b
FLessEq(a, b) ==
    \/ a.m = 0
    \/ /\ b.m # 0
       /\ \/ a.e < b.e
          \/ a.e = b.e /\ a.m <= b.m

\* math.log on the two arguments the idf formula can have with two
\* documents: ln(1.0) = 0.0 and ln(1.5) = 0.40546510810816..., rounded
Ln(x) == IF x = One THEN Zero ELSE Round(870729689, -31)

(***************************************************************************)
(* What a call returns: a value, or an exception that leaves it.           *)
(***************************************************************************)
Return(v) == [kind |-> "return", value |-> v]
Raise(e) == [kind |-> "raise", exc |-> e]

(***************************************************************************)
(* TfidfVectorizer(stop_words='english', max_features=100).fit_transform   *)
(* as the scorer uses it: lowercase, tokens of two or more word            *)
(* characters, scikit-learn's own English stop word list, a vocabulary in  *)
(* sorted order cut to the max_features most frequent terms, raw counts    *)
(* times the smoothed idf ln((1+n)/(1+df)) + 1, rows scaled to length 1.   *)
(* SklearnEnglish holds the words of that list the model's texts can       *)
(* spell; "get" is on it and not on NLTK's.                                *)
(***************************************************************************)
MAX_FEATURES == 100

SklearnEnglish == { <<"t","h","e">>, <<"a","n","d">>, <<"f","o","r">>,
                    <<"w","i","t","h">>, <<"i","n">>, <<"g","e","t">> }

\* the characters \w matches, in code point order once lowercased
WordChars == Digits \o <<"_">> \o LowerCase

IsWordChar(c) == c \in Range(WordChars) \/ c \in Range(UpperCase)

\* re.findall(r"(?u)\b\w\w+\b", doc): the maximal runs of word characters
\* that are at least two long
Tokenize(doc) ==
    SelectSeq(Runs(doc, {c \in Range(doc) : ~IsWordChar(c)}),
              LAMBDA t : Len(t) >= 2)

\* the analyzer: lowercase, tokenize, drop the stop words
Analyze(doc) ==
    SelectSeq(Tokenize(lower(doc)),
              LAMBDA t : t \notin SklearnEnglish)

CharRank(c) == CHOOSE i \in DOMAIN WordChars : WordChars[i] = c

\* a < b for two terms, as Python compares strings
RECURSIVE LexLess(_, _)
LexLess(a, b) ==
    IF a = <<>> THEN b # <<>>
    ELSE IF b = <<>> THEN FALSE
    ELSE IF Head(a) = Head(b) THEN LexLess(Tail(a), Tail(b))
    ELSE CharRank(Head(a)) < CharRank(Head(b))

\* sorted(terms): each term goes to the place that the number of terms
\* before it gives
SortTerms(terms) ==
    LET placed == {<<Cardinality({u \in terms : LexLess(u, t)}) + 1, t>> : t \in terms}
    IN  Tuple([k \in 1..Cardinality(terms) |->
                  The({p \in placed : p[1] = k})[2]])

\* _limit_features: the max_features terms with the largest total count stay.
\* Which of several equally frequent terms stay is left to numpy's argsort;
\* here the earlier ones in sorted order do.  The documents below all have
\* fewer terms than MAX_FEATURES, so all their terms stay.
LimitFeatures(vocabulary, analyzed) ==
    IF Len(vocabulary) <= MAX_FEATURES THEN vocabulary
    ELSE LET all == analyzed[1] \o analyzed[2]
             items == Tuple([i \in DOMAIN vocabulary |->
                                <<vocabulary[i], Count(all, vocabulary[i])>>])
             ranked == SortedByFreq(items, <<>>)
             kept == {ranked[i][1] : i \in 1..MAX_FEATURES}
         IN  SelectSeq(vocabulary, LAMBDA t : t \in kept)

\* sum of row[i] * other[i], added up in index order
RECURSIVE DotFrom(_, _, _, _)
DotFrom(row, other, i, acc) ==
    IF i > Len(row) THEN acc
    ELSE The({DotFrom(row, other, i + 1, sum) :
                 sum \in {FAdd(acc, FMul(row[i], other[i]))}})

\* the bug of leaving the rows unscaled
NormalizeNone(row) == row

\* normalize(X, norm='l2') on one row: a row of zeros stays as it is
Normalize(row) ==
    LET squares == DotFrom(row, row, 1, Zero)
        length == FSqrt(squares)
    IN  IF squares = Zero THEN row
        ELSE Tuple([i \in DOMAIN row |-> FDiv(row[i], length)])

fit_transform(docs) ==
    LET analyzed == Tuple([d \in DOMAIN docs |-> Analyze(docs[d])])
        terms == UNION {Range(analyzed[d]) : d \in DOMAIN docs}
    IN  IF terms = {}
        THEN Raise("ValueError")   \* empty vocabulary
        ELSE LET vocabulary == LimitFeatures(SortTerms(terms), analyzed)
                 n_samples == Len(docs)
                 df(t) == Cardinality({d \in DOMAIN docs : t \in Range(analyzed[d])})
                 idf(t) == FAdd(Ln(FDiv(Float(1 + n_samples), Float(1 + df(t)))), One)
                 idfs == Tuple([i \in DOMAIN vocabulary |-> idf(vocabulary[i])])
                 row(d) == Tuple([i \in DOMAIN vocabulary |->
                              FMul(Float(Count(analyzed[d], vocabulary[i])), idfs[i])])
             IN  Return(Tuple([d \in DOMAIN docs |-> Normalize(row(d))]))

\* cosine_similarity(X, Y)[0][0] for one row each
cosine_similarity(x, y) ==
    The({DotFrom(x_normalized, y_normalized, 1, Zero) :
            x_normalized \in {Normalize(x)}, y_normalized \in {Normalize(y)}})

(***************************************************************************)
(* JobMatcher.calculate_match_score                                        *)
(***************************************************************************)
\* the bug of not catching the vectorizer's ValueError
calculate_match_score_uncaught(resume_text, job_text) ==
    LET tfidf_matrix == fit_transform(<<resume_text, job_text>>)
    IN  IF tfidf_matrix.kind = "raise" THEN tfidf_matrix
        ELSE Return(cosine_similarity(tfidf_matrix.value[1], tfidf_matrix.value[2]))

calculate_match_score(resume_text, job_text) ==
    LET tfidf_matrix == fit_transform(<<resume_text, job_text>>)
    IN  IF tfidf_matrix.kind = "raise"
        THEN IF tfidf_matrix.exc = "ValueError" THEN Return(Zero) ELSE tfidf_matrix
        ELSE Return(cosine_similarity(tfidf_matrix.value[1], tfidf_matrix.value[2]))

(***************************************************************************)
(* Documents: the enumerated ones are up to MaxDocWords words of RawWords, *)
(* joined by blanks; the others are written out.                           *)
(***************************************************************************)
RawWords == { sql, <<"A","w","s",",">> }

Documents ==
    {join(ws) : ws \in SeqsUpTo(RawWords, MaxDocWords)}
        \cup { <<" ">>, <<"T","h","e"," ","j","o","b",".">>,
               <<"U+2022","U+2022","U+2022">>, get,
               <<"G","e","t"," ","S","Q","L"," ","s","q","l"," ","A","w","s">> }

\* 32 distinct tokens, more than NUM_KEYWORDS
LongTokens == SortTerms({t \in SeqsUpTo({"x", "y"}, 5) : Len(t) = 5})

Reverse(s) == Tuple([i \in DOMAIN s |-> s[Len(s) + 1 - i]])

LongDoc == join(LongTokens)
LongDocReversed == join(Reverse(LongTokens))

(***************************************************************************)
(* Specification of calculate_match_score: one call on any pair of         *)
(* normalised documents.                                                   *)
(***************************************************************************)
InitScore ==
    /\ stop_words = InitStopWords
    /\ files = <<>>
    /\ args \in {<<preprocess_text(a), preprocess_text(b)>> :
                    a, b \in Documents \cup {LongDoc, LongDocReversed}}
    /\ ret = NotCalled
    /\ calls = 0

CallScore ==
    /\ calls = 0
    /\ ret' = calculate_match_score(args[1], args[2])
    /\ calls' = 1
    /\ UNCHANGED <<stop_words, files, args>>

NextScore == CallScore

SpecScore == InitScore /\ [][NextScore]_vars

(***************************************************************************)
(* JobMatcher.load_file.  files[path] tells what opening and reading the   *)
(* path does: it gives a text, or there is no such file, or another error  *)
(* is raised (a directory, no permission, bytes that are not UTF-8).       *)
(* "printed" is what the call wrote to standard output.                    *)
(***************************************************************************)
TextFile(content) == [kind |-> "text", content |-> content]
NoFile == [kind |-> "missing"]
BadFile(exc) == [kind |-> "error", exc |-> exc]

load_file(file_path) ==
    LET file == files[file_path]
    IN  IF file.kind = "text"
        THEN [kind |-> "return", value |-> file.content, printed |-> <<>>]
        ELSE IF file.kind = "missing"    \* except FileNotFoundError
        THEN [kind |-> "return", value |-> <<>>,
              printed |-> << <<"Error: File not found.", file_path>> >>]
        ELSE [kind |-> "raise", exc |-> file.exc, printed |-> <<>>]

(***************************************************************************)
(* JobMatcher.match                                                        *)
(***************************************************************************)
NUM_KEYWORDS == 30
None == [type |-> "NoneType"]

\* the bug of giving find_missing_skills its arguments in the wrong order
Results_missing_swapped(resume_processed, job_processed, match_score) ==
    LET resume_keywords == extract_keywords(resume_processed, NUM_KEYWORDS)
        job_keywords == extract_keywords(job_processed, NUM_KEYWORDS)
    IN  [match_score |-> match_score,
         match_percentage |-> FMul(match_score, Float(100)),
         matched_skills |-> find_matched_skills(resume_keywords, job_keywords),
         missing_skills |-> find_missing_skills(job_keywords, resume_keywords),
         resume_keywords |-> resume_keywords,
         job_keywords |-> job_keywords]

\* the results dictionary
Results(resume_processed, job_processed, match_score) ==
    LET resume_keywords == extract_keywords(resume_processed, NUM_KEYWORDS)
        job_keywords == extract_keywords(job_processed, NUM_KEYWORDS)
    IN  [match_score |-> match_score,
         match_percentage |-> FMul(match_score, Float(100)),
         matched_skills |-> find_matched_skills(resume_keywords, job_keywords),
         missing_skills |-> find_missing_skills(resume_keywords, job_keywords),
         resume_keywords |-> resume_keywords,
         job_keywords |-> job_keywords]

\* the bug of going on with a text that is empty
Analyse_unguarded(resume_text, job_text, printed) ==
    LET resume_processed == preprocess_text(resume_text)
        job_processed == preprocess_text(job_text)
        match_score == calculate_match_score(resume_processed, job_processed)
    IN  [kind |-> "return",
         value |-> Results(resume_processed, job_processed, match_score.value),
         printed |-> printed]

\* what match does once both files are read
Analyse(resume_text, job_text, printed) ==
    IF resume_text = <<>> \/ job_text = <<>>
    THEN [kind |-> "return", value |-> None, printed |-> printed]
    ELSE LET resume_processed == preprocess_text(resume_text)
             job_processed == preprocess_text(job_text)
             match_score == calculate_match_score(resume_processed, job_processed)
         IN  IF match_score.kind = "raise"
             THEN [kind |-> "raise", exc |-> match_score.exc, printed |-> printed]
             ELSE [kind |-> "return",
                   value |-> Results(resume_processed, job_processed,
                                     match_score.value),
                   printed |-> printed]

match(resume_path, job_path) ==
    LET resume == load_file(resume_path)
    IN  IF resume.kind = "raise" THEN resume
        ELSE LET job == load_file(job_path)
                 printed == resume.printed \o job.printed
             IN  IF job.kind = "raise"
                 THEN [kind |-> "raise", exc |-> job.exc, printed |-> printed]
                 ELSE Analyse(resume.value, job.value, printed)

(***************************************************************************)
(* Specification of the matcher: any file system, then calls of match on   *)
(* any two paths, one after the other on the same matcher.                 *)
(***************************************************************************)
Paths == {"resume.txt", "job.txt"}

FileStates ==
    {TextFile(d) : d \in Documents}
        \cup {NoFile, BadFile("IsADirectoryError"), BadFile("UnicodeDecodeError")}

FileSystem(resume, job) ==
    [p \in Paths |-> IF p = "resume.txt" THEN resume ELSE job]

FileSystems ==
    {FileSystem(r, j) : r, j \in FileStates}
        \cup { FileSystem(TextFile(LongDoc), TextFile(LongDocReversed)),
               FileSystem(TextFile(LongDoc), TextFile(sql)) }

Init ==
    /\ stop_words = InitStopWords
    /\ files \in FileSystems
    /\ args = <<>>
    /\ ret = NotCalled
    /\ calls = 0

Match(resume_path, job_path) ==
    /\ calls < MaxCalls
    /\ args' = <<resume_path, job_path>>
    /\ ret' = match(resume_path, job_path)
    /\ calls' = calls + 1
    /\ UNCHANGED <<stop_words, files>>

Next == \E resume_path, job_path \in Paths : Match(resume_path, job_path)

Spec == Init /\ [][Next]_vars

(***************************************************************************)
(* Properties of preprocess_text, checked under SpecPreprocess.            *)
(***************************************************************************)
\* a text as preprocess_text leaves it: no upper case, no punctuation, its
\* tokens none of them a stopword or shorter than three, one blank between
\* two tokens and none elsewhere
IsNormalized(text) ==
    /\ \A i \in DOMAIN text :
          /\ text[i] \notin Range(UpperCase)
          /\ text[i] \notin punctuation
          /\ text[i] \in whitespace =>
                /\ text[i] = " "
                /\ 1 < i /\ i < Len(text)
                /\ text[i + 1] # " "
    /\ \A w \in Range(split(text)) : w \notin stop_words /\ Len(w) > 2

Distinct(words) == Cardinality(Range(words))
NoRepeats(list) == Cardinality(Range(list)) = Len(list)
FirstIndex(words, w) == CHOOSE i \in DOMAIN words :
                            words[i] = w /\ \A j \in 1..(i - 1) : words[j] # w

\* a ranks before b: more occurrences, or as many and an earlier first one
RanksBefore(words, a, b) ==
    \/ Count(words, a) > Count(words, b)
    \/ /\ Count(words, a) = Count(words, b)
       /\ FirstIndex(words, a) < FirstIndex(words, b)

KeywordsWithin(limit) ==
    LET words == split(args[1])
    IN  /\ Len(ret) <= limit
        /\ NoRepeats(ret)
        /\ Distinct(words) <= limit => Range(ret) = Range(words)
        /\ args[1] = <<>> => ret = <<>>

\* C6 as stated: for every integer limit the list has at most limit entries,
\* no token twice, all the distinct tokens when they are fewer than limit,
\* and nothing for the empty text.
C6_AtMostLimitAnyInteger == calls = 1 => KeywordsWithin(args[2])

\* C6 amended: the same for every limit that is not negative; the empty text
\* gives the empty list whatever the limit.
C6_AtMostLimit ==
    calls = 1 =>
        /\ args[2] >= 0 => KeywordsWithin(args[2])
        /\ args[1] = <<>> => ret = <<>>

\* C6 witness: a text with more distinct tokens than the limit was cut to it
C6_Witness ==
    /\ calls = 1
    /\ args[2] > 0
    /\ Distinct(split(args[1])) > args[2]
    /\ Len(ret) = args[2]

\* C7: the list is in descending order of occurrence count, equal counts in
\* the order of first occurrence; every token left out ranks behind every
\* token returned, and limit entries are returned when there are that many.
C7_RankedByFrequencyStable ==
    calls = 1 =>
        LET words == split(args[1])
        IN  /\ \A i, j \in DOMAIN ret : i < j => RanksBefore(words, ret[i], ret[j])
            /\ \A w \in Range(words) \ Range(ret) :
                  \A i \in DOMAIN ret : RanksBefore(words, ret[i], w)
            /\ args[2] >= 0 =>
                  Len(ret) = IF args[2] < Distinct(words)
                             THEN args[2] ELSE Distinct(words)

\* C7 witness: a list with two tokens of equal count behind a more frequent
\* one that occurs later in the text
C7_Witness ==
    /\ calls = 1
    /\ Len(ret) = 3
    /\ LET words == split(args[1])
       IN  /\ Count(words, ret[1]) > Count(words, ret[2])
           /\ Count(words, ret[2]) = Count(words, ret[3])
           /\ FirstIndex(words, ret[1]) > FirstIndex(words, ret[3])

(***************************************************************************)
(* Properties of the comparators, checked under SpecSkills.                *)
(***************************************************************************)
Occurs(x, list) == \E i \in DOMAIN list : list[i] = x

\* C8: matched is the intersection of the two lists as sets and the same
\* with the lists exchanged; missing is job minus resume, and empty when the
\* two lists are the same.
C8_IntersectionAndDifference ==
    calls = 1 =>
        LET resume_keywords == args[1]
            job_keywords == args[2]
        IN  /\ "matched" \in DOMAIN ret =>
                  /\ ret.matched = {x \in KwTokens : Occurs(x, resume_keywords)
                                                      /\ Occurs(x, job_keywords)}
                  /\ ret.matched = find_matched_skills(job_keywords, resume_keywords)
            /\ "missing" \in DOMAIN ret =>
                  /\ ret.missing = {x \in KwTokens : Occurs(x, job_keywords)
                                                      /\ ~Occurs(x, resume_keywords)}
                  /\ resume_keywords = job_keywords => ret.missing = {}

\* C8 witness: lists with repeats, each with a token the other lacks, and
\* the missing ones computed
C8_Witness ==
    /\ calls = 1
    /\ "missing" \in DOMAIN ret
    /\ ret.missing # {}
    /\ Range(args[1]) \ Range(args[2]) # {}
    /\ ~NoRepeats(args[1]) /\ ~NoRepeats(args[2])

(***************************************************************************)
(* Properties of calculate_match_score, checked under SpecScore.           *)
(***************************************************************************)
\* x is 1.0 up to floating tolerance: within 2^(4-PREC), eight units in the
\* last place of 1.0
CloseToOne(x) ==
    LET units == IF x.e = -PREC THEN x.m            \* x < 1
                 ELSE IF x.e = 1 - PREC THEN 2 * x.m   \* 1 <= x < 2
                 ELSE 0
    IN  2^PREC - 16 <= units /\ units <= 2^PREC + 16

\* the scorer's own tokenizer and stop word list leave no term of the text
NoTerms(text) == Analyze(text) = <<>>

\* C3 as stated: the score of any normalised text that is not empty with
\* itself is 1.0 up to floating tolerance.
C3_SelfScoreIsOne ==
    (calls = 1 /\ args[1] = args[2] /\ args[1] # <<>>) =>
        ret.kind = "return" /\ CloseToOne(ret.value)

\* C3 amended: the score of a normalised text with itself is 1.0 up to
\* floating tolerance when the scorer's own tokenizer and stop word list
\* leave at least one term of it, and exactly 0.0 when they leave none.
C3_SelfScoreIsOneWithTerms ==
    (calls = 1 /\ args[1] = args[2] /\ args[1] # <<>>) =>
        /\ ret.kind = "return"
        /\ IF NoTerms(args[1]) THEN ret.value = Zero ELSE CloseToOne(ret.value)

\* C3 witness: a text of several tokens, one of them repeated, scored with
\* itself
C3_Witness ==
    /\ calls = 1
    /\ args[1] = args[2]
    /\ ~NoRepeats(Analyze(args[1]))
    /\ Distinct(Analyze(args[1])) >= 2
    /\ CloseToOne(ret.value)

\* C4: the score is exactly 0.0, and nothing is raised, when either text is
\* empty and when the two texts together give the vectorizer no term.
C4_DegenerateScoreIsZero ==
    (calls = 1 /\ \/ args[1] = <<>>
                  \/ args[2] = <<>>
                  \/ NoTerms(args[1]) /\ NoTerms(args[2])) =>
        ret = Return(Zero)

\* C4 witness: two texts that are not empty and hold only terms the scorer
\* drops gave 0.0
C4_Witness ==
    /\ calls = 1
    /\ args[1] # <<>> /\ args[2] # <<>> /\ args[1] # args[2]
    /\ NoTerms(args[1]) /\ NoTerms(args[2])
    /\ ret = Return(Zero)

(***************************************************************************)
(* Properties of match, checked under Spec.                                *)
(***************************************************************************)
Called == calls >= 1
ResumeFile == files[args[1]]
JobFile == files[args[2]]
BothRead == ResumeFile.kind = "text" /\ JobFile.kind = "text"
GaveResults == ret.kind = "return" /\ ret.value # None

\* C1: when the read of either file fails, for want of the file or through
\* any other error, match returns None and raises nothing.
C1_ReadFailureGivesNone ==
    (Called /\ ~BothRead) => ret.kind = "return" /\ ret.value = None

\* C2 as stated: when one of the two documents is the empty string and the
\* other is not, match gives results: a score of exactly 0.0, no keywords
\* for the empty document, nothing matched, and as missing the job keywords
\* when the resume is the empty one, nothing when the job is.
C2_EmptyDocumentGivesResults ==
    (Called /\ BothRead
        /\ (ResumeFile.content = <<>>) # (JobFile.content = <<>>)) =>
        /\ GaveResults
        /\ ret.value.match_score = Zero
        /\ ret.value.matched_skills = {}
        /\ IF ResumeFile.content = <<>>
           THEN /\ ret.value.resume_keywords = <<>>
                /\ ret.value.missing_skills = Range(ret.value.job_keywords)
           ELSE /\ ret.value.job_keywords = <<>>
                /\ ret.value.missing_skills = {}

\* C2 amended: when a document is the empty string match returns None; when
\* neither is and at least one of them is empty once normalised, match gives
\* results: a score of exactly 0.0, nothing matched, no keywords for a
\* document that is empty once normalised, as missing the job keywords when
\* that is the resume, nothing when that is the job.
C2_EmptyAfterNormalising ==
    (Called /\ BothRead) =>
        LET resume_text == ResumeFile.content
            job_text == JobFile.content
            resume_empty == preprocess_text(resume_text) = <<>>
            job_empty == preprocess_text(job_text) = <<>>
        IN  IF resume_text = <<>> \/ job_text = <<>>
            THEN ret.kind = "return" /\ ret.value = None
            ELSE (resume_empty \/ job_empty) =>
                    /\ GaveResults
                    /\ ret.value.match_score = Zero
                    /\ ret.value.matched_skills = {}
                    /\ resume_empty =>
                          /\ ret.value.resume_keywords = <<>>
                          /\ ret.value.missing_skills =
                                Range(ret.value.job_keywords)
                    /\ job_empty =>
                          /\ ret.value.job_keywords = <<>>
                          /\ ret.value.missing_skills = {}

\* C2 witness: a resume that is not empty and normalises to nothing, against
\* a job with keywords, gave results with all of them missing
C2_Witness ==
    /\ Called /\ BothRead
    /\ ResumeFile.content # <<>>
    /\ preprocess_text(ResumeFile.content) = <<>>
    /\ GaveResults
    /\ ret.value.match_score = Zero
    /\ ret.value.missing_skills # {}

\* C9: the score of every result is in [0, 1], and its percentage is the
\* score times 100 and in [0, 100].
C9_ScoreInUnitInterval ==
    (Called /\ GaveResults) =>
        /\ FLessEq(Zero, ret.value.match_score)
        /\ FLessEq(ret.value.match_score, One)
        /\ ret.value.match_percentage = FMul(ret.value.match_score, Float(100))
        /\ FLessEq(Zero, ret.value.match_percentage)
        /\ FLessEq(ret.value.match_percentage, Float(100))

\* C10: in every result, after any number of calls, matched and missing
\* are disjoint and together the job keywords, matched is among the resume
\* keywords, and either keyword list holds at most 30 tokens, none twice.
C10_ResultSets ==
    (Called /\ GaveResults) =>
        LET r == ret.value
        IN  /\ r.matched_skills \cap r.missing_skills = {}
            /\ r.matched_skills \cup r.missing_skills = Range(r.job_keywords)
            /\ r.matched_skills \subseteq Range(r.resume_keywords)
            /\ Len(r.resume_keywords) <= 30 /\ NoRepeats(r.resume_keywords)
            /\ Len(r.job_keywords) <= 30 /\ NoRepeats(r.job_keywords)
            /\ Cardinality(r.matched_skills) <= 30
            /\ Cardinality(r.missing_skills) <= 30

\* C10 witness: a second call, on documents of more than 30 distinct tokens
\* each, gave full keyword lists with some matched and some missing
C10_Witness ==
    /\ calls = 2
    /\ GaveResults
    /\ Len(ret.value.resume_keywords) = 30
    /\ Len(ret.value.job_keywords) = 30
    /\ ret.value.matched_skills # {}
    /\ ret.value.missing_skills # {}

====
